---- MODULE Spec2Model ----
(***************************************************************************)
(* The getPharmacyData HTTP function of fatsw2323/my_web.  The repository  *)
(* holds three versions of the handler:                                    *)
(*   "index"    src/pharmacy-backend-function/index.js                     *)
(*   "part_000" src/unnamed/part_000  (defaults, URLSearchParams)          *)
(*   "part_001" src/unnamed/part_001  (dayMap weekday translation)         *)
(* One deployed function runs one of them; the model draws the version in  *)
(* Init and then serves requests one after the other.  A request is cut at *)
(* its only suspension that lets the outside world act: await axios.get.   *)
(***************************************************************************)
EXTENDS Integers, Sequences, FiniteSets, TLC

\* ------------------------------------------------------------------ bounds
\* Requests served one after the other by one deployed function.
MaxRequests == 2
\* <item> elements under <items> in an upstream body.
MaxItems == 2

\* -------------------------------------------------------------- JS values
Undefined == [type |-> "undefined"]
Null == [type |-> "null"]
Str(s) == [type |-> "string", val |-> s]
Obj(f) == [type |-> "object", fields |-> f]
Arr(s) == [type |-> "array", elems |-> s]
Fn(n) == [type |-> "function", name |-> n]
NoFields == [k \in {} |-> Undefined]

\* ToBoolean: undefined, null and '' are falsy; objects, arrays, functions
\* and non-empty strings are truthy.
Truthy(v) ==
  CASE v.type = "undefined" -> FALSE
    [] v.type = "null" -> FALSE
    [] v.type = "string" -> v.val # ""
    [] OTHER -> TRUE

\* a || b
Or(a, b) == IF Truthy(a) THEN a ELSE b

\* Array.isArray
IsArray(v) == v.type = "array"

\* Properties every object literal inherits from Object.prototype.
ObjectPrototypeKeys == {"constructor", "toString", "valueOf", "hasOwnProperty"}

\* o[k] on an object literal: own property, else the prototype's, else undefined.
Get(o, k) ==
  IF k \in DOMAIN o.fields THEN o.fields[k]
  ELSE IF k \in ObjectPrototypeKeys THEN Fn(k)
  ELSE Undefined

\* v?.k : undefined when v is null or undefined; a string has no such own
\* property; an array has no named property.
Opt(v, k) ==
  CASE v.type \in {"undefined", "null"} -> Undefined
    [] v.type = "object" -> Get(v, k)
    [] OTHER -> Undefined

\* `${v}` inside a template string.
Interpolate(v) ==
  CASE v.type = "string" -> v.val
    [] v.type = "undefined" -> "undefined"
    [] v.type = "null" -> "null"
    [] v.type = "function" -> "function " \o v.name \o "() { [native code] }"
    [] v.type = "array" -> "[array]"
    [] OTHER -> "[object Object]"

\* ------------------------------------------------------------ XML and xml2js
\* An element: its name, whether it carries attributes, its text, its children.
XElem(n, k) == [name |-> n, attrs |-> FALSE, text |-> "", kids |-> k]
XText(n, t) == [name |-> n, attrs |-> FALSE, text |-> t, kids |-> <<>>]
XAttr(n) == [name |-> n, attrs |-> TRUE, text |-> "", kids |-> <<>>]

RECURSIVE ParseElem(_, _)
RECURSIVE AddKids(_, _, _, _)

\* xml2js with explicitArray: false: the first child of a name is stored as
\* is, a second one turns the entry into an array, later ones are pushed.
AddKids(obj, kids, i, ignoreAttrs) ==
  IF i > Len(kids) THEN obj
  ELSE LET c == ParseElem(kids[i], ignoreAttrs)
           n == kids[i].name
           entry == IF n \notin DOMAIN obj THEN c
                    ELSE IF IsArray(obj[n]) THEN Arr(Append(obj[n].elems, c))
                    ELSE Arr(<<obj[n], c>>)
       IN AddKids((n :> entry) @@ obj, kids, i + 1, ignoreAttrs)

\* xml2js closing an element: attributes under "$" unless ignoreAttrs, text
\* under "_"; an element with text only is that string, an element with
\* nothing is the emptyTag value ''.
ParseElem(e, ignoreAttrs) ==
  LET a == IF e.attrs /\ ~ignoreAttrs THEN ("$" :> Obj(NoFields)) ELSE NoFields
      t == IF e.text # "" THEN ("_" :> Str(e.text)) @@ a ELSE a
      obj == AddKids(t, e.kids, 1, ignoreAttrs)
  IN IF DOMAIN obj = {} THEN Str("")
     ELSE IF DOMAIN obj = {"_"} THEN obj["_"]
     ELSE Obj(obj)

\* The text of an HTTP body: '' , whitespace, something that is not XML, or a
\* well-formed document with a root element.
NoRoot == XElem("", <<>>)
EmptyText == [form |-> "empty", root |-> NoRoot]
BlankText == [form |-> "blank", root |-> NoRoot]
Malformed == [form |-> "malformed", root |-> NoRoot]
Doc(r) == [form |-> "wellformed", root |-> r]

\* parser.parseStringPromise(text): rejects on text that is not XML, resolves
\* to null on '' or whitespace, else to { <root name>: <root> }.
ParseString(text, ignoreAttrs) ==
  CASE text.form = "malformed" -> [ok |-> FALSE, value |-> Undefined]
    [] text.form \in {"empty", "blank"} -> [ok |-> TRUE, value |-> Null]
    [] OTHER -> [ok |-> TRUE,
                 value |-> Obj(text.root.name :> ParseElem(text.root, ignoreAttrs))]

\* ----------------------------------------------------- the upstream's bodies
\* response.data / error.response.data as axios hands them over: a string, or
\* (a JSON body axios has parsed) an object, an array or null.  text is the
\* string itself, or what toString() of the value gives.
StringData(t) == [jstype |-> "string", text |-> t]
ObjectData == [jstype |-> "object", text |-> Malformed]
ArrayData == [jstype |-> "array", text |-> EmptyText]
NullData == [jstype |-> "null", text |-> Malformed]

DataTruthy(d) ==
  CASE d.jstype = "null" -> FALSE
    [] d.jstype = "string" -> d.text.form # "empty"
    [] OTHER -> TRUE

\* Only a string has .substring .
HasSubstring(d) == d.jstype = "string"

Record1 == XElem("item", <<XText("dutyName", "A"), XText("dutyTel1", "02-1")>>)
Record2 == XElem("item", <<XText("dutyName", "B")>>)
EmptyItem == XElem("item", <<>>)
AttrItem == XAttr("item")
ItemElems == {Record1, Record2, EmptyItem, AttrItem}

RECURSIVE SeqsUpTo(_, _)
SeqsUpTo(S, n) ==
  IF n = 0 THEN {<<>>}
  ELSE LET shorter == SeqsUpTo(S, n - 1)
       IN shorter \cup {Append(s, x) : s \in {u \in shorter : Len(u) = n - 1}, x \in S}

Header(msg) == XElem("header", <<XText("resultCode", "99"), msg>>)
HeaderOk == XElem("header", <<XText("resultCode", "00"), XText("resultMsg", "NORMAL SERVICE.")>>)

ItemDocs ==
  {Doc(XElem("response", <<HeaderOk, XElem("body", <<XElem("items", its)>>)>>)) :
     its \in SeqsUpTo(ItemElems, MaxItems)}

OtherDocs ==
  { Doc(XElem("html", <<XText("body", "Bad Gateway")>>)),
    Doc(XElem("response", <<>>)),
    Doc(XElem("response", <<HeaderOk>>)),
    Doc(XElem("response", <<HeaderOk, XElem("body", <<>>)>>)),
    Doc(XElem("response", <<HeaderOk, XElem("body", <<XText("totalCount", "0")>>)>>)),
    Doc(XElem("response", <<Header(XText("resultMsg", "SERVICE KEY IS NOT REGISTERED ERROR."))>>)),
    Doc(XElem("response", <<Header(XText("resultMsg", "LIMITED NUMBER OF SERVICE REQUESTS EXCEEDS ERROR."))>>)),
    Doc(XElem("response", <<Header(XElem("resultMsg", <<>>))>>)),
    Doc(XElem("response", <<XElem("header", <<XText("resultCode", "99")>>)>>)) }

Texts == ItemDocs \cup OtherDocs \cup {EmptyText, BlankText, Malformed}

Datas == {StringData(t) : t \in Texts} \cup {ObjectData, ArrayData, NullData}

\* ------------------------------------------------ URLs, log lines, responses
\* A URL or a console line is a sequence of pieces: fixed text, a value put in
\* as it is (template string), a value percent-encoded by URLSearchParams, or
\* the length of a value.
Lit(s) == [kind |-> "lit", s |-> s]
Raw(s) == [kind |-> "raw", s |-> s]
Enc(s) == [kind |-> "enc", s |-> s]
LengthOf(s) == [kind |-> "length", s |-> "serviceKey.length"]

\* The value of query parameter `name` in a URL: the piece after "?name=" or
\* "&name=".
QueryParam(url, name) ==
  LET at == {i \in 1..(Len(url) - 1) :
               url[i] \in {Lit("?" \o name \o "="), Lit("&" \o name \o "=")}}
  IN IF at = {} THEN "" ELSE url[(CHOOSE i \in at : \A j \in at : i <= j) + 1].s

\* The credential is readable in a line when a piece of it is the credential,
\* as it is or percent-encoded.
ShowsKey(pieces, key) ==
  /\ Truthy(key)
  /\ \E i \in 1..Len(pieces) : pieces[i].kind \in {"raw", "enc"} /\ pieces[i].s = key.val

NoRes == [sent |-> FALSE, status |-> 0, body |-> Undefined]
\* res.status(status).json(body)
Json(status, body) == [sent |-> TRUE, status |-> status, body |-> body]
Message(m) == Obj("message" :> Str(m))

\* What a handler step leaves behind: the response (if sent), the console
\* lines, the GET it issued (at most one), whether an exception escaped.
Step(r, l, c, t) == [res |-> r, logs |-> l, call |-> c, threw |-> t]

\* The handlers' Korean message texts, written here in English.
\* 'seobeo seoljeong oryu: API kiga nurakdoeeotseumnida.'
MsgNoKey == "server configuration error: the API key is missing"
\* 'pilsu geomsaek jogeon(si/do, si/gun/gu, yoil)i nurakdoeeotseumnida.'
MsgMissingParams == "required search conditions (Q0, Q1, DG) are missing"
\* 'deiteoreul bulleooneun de silpaehaetseumnida.'
MsgLoadFailed == "failed to load the data"
\* 'deiteo cheori jung oryu balsaeng: jalmotdoen API eungdap hyeongsik'
\* (part_001 appends 'ttoneun neteuwokeu munje').
MsgMalformed == "error while processing data: malformed API response"
MsgMalformedOrNetwork == "error while processing data: malformed API response or network problem"
\* 'API eungdap oryu: ' and 'al su eomneun API eungdap oryu'
MsgApiErrorPrefix == "API response error: "
MsgUnknownApiError == "unknown API response error"

\* ----------------------------------------------------------------- errors
NoResponse == [present |-> FALSE, status |-> 0, data |-> NullData]
Resp(st, d) == [present |-> TRUE, status |-> st, data |-> d]
\* axios rejects with an error that carries the request's config (its url)
\* and, when the upstream answered, its response.
AxiosError(resp) ==
  [name |-> "AxiosError", message |-> "Request failed", config |-> TRUE, response |-> resp]
\* xmlData.substring on a value that is not a string.
TypeError ==
  [name |-> "TypeError", message |-> "substring is not a function", config |-> FALSE,
   response |-> NoResponse]
\* xml2js rejecting text that is not XML.
SaxError ==
  [name |-> "Error", message |-> "Non-whitespace before first tag.", config |-> FALSE,
   response |-> NoResponse]

\* console.error(label, error): Node prints the error object with its own
\* properties; an axios error's config.url is the URL that was called.
InspectError(error, apiUrl) ==
  <<Lit(error.name), Lit(error.message)>> \o (IF error.config THEN apiUrl ELSE <<>>)

\* ------------------------------------------------------- shared handler code
\* (slip: && for ||)
MissingParams_And(Q0, Q1, DG) == ~Truthy(Q0) /\ ~Truthy(Q1) /\ ~Truthy(DG)
\* if (!Q0 || !Q1 || !DG)
MissingParams(Q0, Q1, DG) == ~Truthy(Q0) \/ ~Truthy(Q1) \/ ~Truthy(DG)

\* jsonData?.response?.body?.items?.item
ItemsOf(jsonData) == Opt(Opt(Opt(Opt(jsonData, "response"), "body"), "items"), "item")

\* (slip: a single item handed on as it is)
PharmacyList_NoWrap(items) ==
  IF Truthy(items) THEN items ELSE Arr(<<>>)
\* (slip: null for no results)
PharmacyList_NullWhenEmpty(items) ==
  IF Truthy(items) THEN (IF IsArray(items) THEN items ELSE Arr(<<items>>)) ELSE Null
\* if (items) { Array.isArray(items) ? items : [items] } else []
PharmacyList(items) ==
  IF Truthy(items) THEN (IF IsArray(items) THEN items ELSE Arr(<<items>>)) ELSE Arr(<<>>)

\* (slip: resultMsg looked up under response, not under header)
ErrorMessage_WrongPath(errorJson) ==
  Or(Opt(Opt(errorJson, "response"), "resultMsg"), Str(MsgUnknownApiError))
\* errorJson?.response?.header?.resultMsg || <fallback text>
ErrorMessage(errorJson) ==
  Or(Opt(Opt(Opt(errorJson, "response"), "header"), "resultMsg"),
     Str(MsgUnknownApiError))

\* console.log / console.error
Log(pieces) == [level |-> "log", pieces |-> pieces]
Error(pieces) == [level |-> "error", pieces |-> pieces]
\* The lines of step `st` come after the lines `l` already written.
After(l, st) == [st EXCEPT !.logs = l \o @]

\* ---------------------------------- src/pharmacy-backend-function/index.js
GetParmacyList == "http://apis.data.go.kr/B552657/ErmctInsttInfoInqireService/getParmacyList"

Index_ApiUrl(serviceKey, Q0, Q1, DG) ==
  <<Lit(GetParmacyList), Lit("?ServiceKey="), Raw(Interpolate(serviceKey)),
    Lit("&Q0="), Raw(Interpolate(Q0)), Lit("&Q1="), Raw(Interpolate(Q1)),
    Lit("&DG="), Raw(Interpolate(DG)), Lit("&pageNo=1&numOfRows=10")>>

\* The URL as it is logged, ServiceKey=*** .
Index_MaskedUrl(Q0, Q1, DG) ==
  <<Lit(GetParmacyList), Lit("?ServiceKey="), Lit("***"),
    Lit("&Q0="), Raw(Interpolate(Q0)), Lit("&Q1="), Raw(Interpolate(Q1)),
    Lit("&DG="), Raw(Interpolate(DG)), Lit("&pageNo=1&numOfRows=10")>>

\* (slip: the parameters checked before the credential)
Index_Request_ParamsFirst(serviceKey, q) ==
  IF MissingParams(q.Q0, q.Q1, q.DG)
  THEN Step(Json(400, Message(MsgMissingParams)),
            <<Error(<<Lit("Missing required query parameters")>>)>>, <<>>, FALSE)
  ELSE IF ~Truthy(serviceKey)
  THEN Step(Json(500, Message(MsgNoKey)),
            <<Error(<<Lit("API Key is not set in environment variables.")>>)>>, <<>>, FALSE)
  ELSE Step(NoRes, <<>>, <<Index_ApiUrl(serviceKey, q.Q0, q.Q1, q.DG)>>, FALSE)
\* Lines 12-46: from the request to the call of axios.get .
Index_Request(serviceKey, q) ==
  IF ~Truthy(serviceKey)
  THEN Step(Json(500, Message(MsgNoKey)),
            <<Error(<<Lit("API Key is not set in environment variables.")>>)>>, <<>>, FALSE)
  ELSE IF MissingParams(q.Q0, q.Q1, q.DG)
  THEN Step(Json(400, Message(MsgMissingParams)),
            <<Error(<<Lit("Missing required query parameters")>>)>>, <<>>, FALSE)
  ELSE Step(NoRes,
            <<Log(<<Lit("Constructed API URL (without key):")>>
                  \o Index_MaskedUrl(q.Q0, q.Q1, q.DG)),
              Log(<<Lit("API Key length:"), LengthOf(serviceKey)>>),
              Log(<<Lit("Q0 (sido):"), Raw(Interpolate(q.Q0))>>),
              Log(<<Lit("Q1 (sigungu):"), Raw(Interpolate(q.Q1))>>),
              Log(<<Lit("DG (day):"), Raw(Interpolate(q.DG))>>)>>,
            <<Index_ApiUrl(serviceKey, q.Q0, q.Q1, q.DG)>>, FALSE)

\* (slip: the call made again after a failure without a response)
Index_Catch_Retry(error) ==
  IF error.config /\ ~error.response.present
  THEN Step(NoRes, <<Error(<<Lit("API call or parsing error:"), Lit(error.message)>>)>>,
            <<<<Lit(GetParmacyList)>>>>, FALSE)
  ELSE Step(Json(500, Message(MsgLoadFailed)), <<>>, <<>>, FALSE)
\* Lines 68-85: the catch block.
Index_Catch(error) ==
  LET first == <<Error(<<Lit("API call or parsing error:"), Lit(error.message)>>)>>
  IN IF error.response.present /\ DataTruthy(error.response.data)
     THEN LET p == ParseString(error.response.data.text, FALSE)
          IN IF p.ok
             THEN LET errorMessage == ErrorMessage(p.value)
                  IN Step(Json(error.response.status,
                               Message(MsgApiErrorPrefix \o Interpolate(errorMessage))),
                          first \o <<Error(<<Lit("Detailed API Error Response:"),
                                            Lit(Interpolate(errorMessage))>>)>>,
                          <<>>, FALSE)
             ELSE Step(Json(500, Message(MsgMalformed)),
                       first \o <<Error(<<Lit("Error parsing API error response:"),
                                         Lit(SaxError.message)>>)>>,
                       <<>>, FALSE)
     ELSE Step(Json(500, Message(MsgLoadFailed)), first, <<>>, FALSE)

\* Lines 47-66: after axios.get resolved with response.data = data.
Index_OnData(data) ==
  IF ~HasSubstring(data) THEN Index_Catch(TypeError)
  ELSE LET received == <<Log(<<Lit("Received XML data (first 500 chars):"),
                              Lit("xmlData.substring(0, 500)")>>)>>
           p == ParseString(data.text, FALSE)
       IN IF ~p.ok THEN After(received, Index_Catch(SaxError))
          ELSE Step(Json(200, PharmacyList(ItemsOf(p.value))), received, <<>>, FALSE)

\* ------------------------------------------------------ src/unnamed/part_000
GetParmacyListInfoInqire ==
  "http://apis.data.go.kr/B552657/ErmctInsttInfoInqireService/getParmacyListInfoInqire"

\* The defaults of lines 28-30: 'Seoul-teukbyeolsi', 'Gangnam-gu', 'wol' (Monday).
DefaultQ0 == Str("Seoul-teukbyeolsi")
DefaultQ1 == Str("Gangnam-gu")
DefaultDG == Str("wol")

\* `${baseUrl}?${new URLSearchParams({serviceKey, Q0, Q1, DG}).toString()}`
Part000_ApiUrl(serviceKey, Q0, Q1, DG) ==
  <<Lit(GetParmacyListInfoInqire), Lit("?serviceKey="), Enc(Interpolate(serviceKey)),
    Lit("&Q0="), Enc(Interpolate(Q0)), Lit("&Q1="), Enc(Interpolate(Q1)),
    Lit("&DG="), Enc(Interpolate(DG))>>

\* Lines 12-48: from the request to the call of axios.get .
Part000_Request(serviceKey, q) ==
  IF ~Truthy(serviceKey)
  THEN Step(Json(500, Message(MsgNoKey)),
            <<Error(<<Lit("API Key is not set in environment variables.")>>)>>, <<>>, FALSE)
  ELSE LET Q0 == Or(q.Q0, DefaultQ0)
           Q1 == Or(q.Q1, DefaultQ1)
           DG == Or(q.DG, DefaultDG)
           apiUrl == Part000_ApiUrl(serviceKey, Q0, Q1, DG)
       IN Step(NoRes, <<Log(<<Lit("Calling API: ")>> \o apiUrl)>>, <<apiUrl>>, FALSE)

\* Lines 75-88: the catch block.
Part000_Catch(error) ==
  LET errorDetail == IF error.response.present THEN error.response.data
                     ELSE Str("No response data from external API")
  IN Step(Json(500, Obj(("message" :> Str(MsgLoadFailed))
                        @@ ("error" :> Str(error.message))
                        @@ ("detail" :> errorDetail))),
          <<Error(<<Lit("API call or parsing error:"), Lit(error.message)>>)>>,
          <<>>, FALSE)

\* Lines 49-73: after axios.get resolved with response.data = data.
Part000_OnData(data) ==
  IF ~HasSubstring(data) THEN Part000_Catch(TypeError)
  ELSE LET received == <<Log(<<Lit("Received XML data (first 500 chars):"),
                              Lit("xmlData.substring(0, 500)")>>)>>
           p == ParseString(data.text, TRUE)
       IN IF ~p.ok THEN After(received, Part000_Catch(SaxError))
          ELSE Step(Json(200, PharmacyList(ItemsOf(p.value))), received, <<>>, FALSE)

\* ------------------------------------------------------ src/unnamed/part_001
\* Lines 35-44.  The labels are the Korean weekday names wol, hwa, su, mok,
\* geum, to, il and gonghyuil (public holiday).
dayMap ==
  Obj(("wol" :> Str("1")) @@ ("hwa" :> Str("2")) @@ ("su" :> Str("3"))
      @@ ("mok" :> Str("4")) @@ ("geum" :> Str("5")) @@ ("to" :> Str("6"))
      @@ ("il" :> Str("7")) @@ ("gonghyuil" :> Str("8")))

\* DG = dayMap[DG] || DG
ConvertDG(DG) == Or(Get(dayMap, Interpolate(DG)), DG)

\* Lines 12-63: from the request to the call of axios.get .
Part001_Request(serviceKey, q) ==
  IF ~Truthy(serviceKey)
  THEN Step(Json(500, Message(MsgNoKey)),
            <<Error(<<Lit("API Key is not set in environment variables.")>>)>>, <<>>, FALSE)
  ELSE IF MissingParams(q.Q0, q.Q1, q.DG)
  THEN Step(Json(400, Message(MsgMissingParams)),
            <<Error(<<Lit("Missing required query parameters")>>)>>, <<>>, FALSE)
  ELSE LET originalDG == q.DG
           DG == ConvertDG(q.DG)
       IN Step(NoRes,
               <<Log(<<Lit("Original DG from request:"), Raw(Interpolate(originalDG))>>),
                 Log(<<Lit("Converted DG for API call:"), Raw(Interpolate(DG))>>),
                 Log(<<Lit("Constructed API URL (without key):")>>
                     \o Index_MaskedUrl(q.Q0, q.Q1, DG)),
                 Log(<<Lit("API Key length:"), LengthOf(serviceKey)>>),
                 Log(<<Lit("Q0 (sido):"), Raw(Interpolate(q.Q0))>>),
                 Log(<<Lit("Q1 (sigungu):"), Raw(Interpolate(q.Q1))>>),
                 Log(<<Lit("DG (day):"), Raw(Interpolate(DG))>>)>>,
               <<Index_ApiUrl(serviceKey, q.Q0, q.Q1, DG)>>, FALSE)

\* Lines 85-109: the catch block.  error.response.data.substring is called in
\* the inner try (line 94) and again in the inner catch (line 103).
Part001_Catch(error, apiUrl) ==
  LET first == <<Error(<<Lit("API call or parsing error:"), Lit(error.message)>>),
                 Error(<<Lit("Full Error Object:")>> \o InspectError(error, apiUrl))>>
      data == error.response.data
      raw == Error(<<Lit("Raw error response data (first 500 chars):"),
                     Lit("error.response.data.substring(0, 500)")>>)
  IN IF error.response.present /\ DataTruthy(data)
     THEN IF ~HasSubstring(data)
          THEN \* line 94 throws, line 102 logs, line 103 throws out of the handler
               Step(NoRes,
                    first \o <<Error(<<Lit("Error parsing API error response (likely non-XML):"),
                                      Lit(TypeError.message)>>)>>,
                    <<>>, TRUE)
          ELSE LET xml == Error(<<Lit("Error Response XML:"),
                                  Lit("error.response.data.substring(0, 500)")>>)
                   p == ParseString(data.text, FALSE)
               IN IF p.ok
                  THEN LET errorMessage == ErrorMessage(p.value)
                       IN Step(Json(error.response.status,
                                    Message(MsgApiErrorPrefix \o Interpolate(errorMessage))),
                               first \o <<xml, Error(<<Lit("Detailed API Error Response:"),
                                                      Lit(Interpolate(errorMessage))>>)>>,
                               <<>>, FALSE)
                  ELSE Step(Json(500, Message(MsgMalformedOrNetwork)),
                            first \o <<xml,
                                       Error(<<Lit("Error parsing API error response (likely non-XML):"),
                                               Lit(SaxError.message)>>),
                                       raw>>,
                            <<>>, FALSE)
     ELSE Step(Json(500, Message(MsgLoadFailed)), first, <<>>, FALSE)

\* Lines 64-83: after axios.get resolved with response.data = data.
Part001_OnData(data, apiUrl) ==
  IF ~HasSubstring(data) THEN Part001_Catch(TypeError, apiUrl)
  ELSE LET received == <<Log(<<Lit("Received XML data (first 500 chars):"),
                              Lit("xmlData.substring(0, 500)")>>)>>
           p == ParseString(data.text, FALSE)
       IN IF ~p.ok THEN After(received, Part001_Catch(SaxError, apiUrl))
          ELSE Step(Json(200, PharmacyList(ItemsOf(p.value))), received, <<>>, FALSE)

\* ------------------------------------------------------------------- state
Versions == {"index", "part_000", "part_001"}
\* process.env.PHARMACY_API_KEY: unset, set to '', or set.
Keys == {Undefined, Str(""), Str("s3cr3t+key")}
\* req.query.Q0 / Q1 / DG: absent, empty or a value.
Q0s == {Undefined, Str(""), DefaultQ0}
Q1s == {Undefined, Str(""), DefaultQ1}
DGs == {Undefined, Str(""), Str("wol"), Str("gonghyuil"), Str("1"), Str("naeil"),
        Str("constructor")}
Queries == [Q0 : Q0s, Q1 : Q1s, DG : DGs]
\* Statuses on which axios rejects with a response.
ErrorStatuses == {404, 503}
AxiosErrors ==
  {AxiosError(NoResponse)} \cup {AxiosError(Resp(st, d)) : st \in ErrorStatuses, d \in Datas}

VARIABLES
  version,    \* which of the three handler files is deployed
  env,        \* process.env.PHARMACY_API_KEY
  pc,         \* "idle", "await" (axios.get pending), "done", "crashed"
  req,        \* req.query of the request being served
  outbound,   \* the URLs passed to axios.get for this request
  reply,      \* what axios.get gave: nothing yet, a response, an error
  logs,       \* the console lines written for this request
  res,        \* the response sent for this request
  served      \* requests received so far

vars == <<version, env, pc, req, outbound, reply, logs, res, served>>

NoQuery == [Q0 |-> Undefined, Q1 |-> Undefined, DG |-> Undefined]
NoReply == [kind |-> "none", response |-> NoResponse]

Init ==
  /\ version \in Versions
  /\ env \in Keys
  /\ pc = "idle"
  /\ req = NoQuery
  /\ outbound = <<>>
  /\ reply = NoReply
  /\ logs = <<>>
  /\ res = NoRes
  /\ served = 0

\* functions.http('getPharmacyData', ...) up to the first await.
RequestStep(q) ==
  CASE version = "index" -> Index_Request(env, q)
    [] version = "part_000" -> Part000_Request(env, q)
    [] OTHER -> Part001_Request(env, q)

\* The continuation after axios.get resolved.
DataStep(data) ==
  CASE version = "index" -> Index_OnData(data)
    [] version = "part_000" -> Part000_OnData(data)
    [] OTHER -> Part001_OnData(data, outbound[1])

\* The continuation after axios.get rejected.
CatchStep(error) ==
  CASE version = "index" -> Index_Catch(error)
    [] version = "part_000" -> Part000_Catch(error)
    [] OTHER -> Part001_Catch(error, outbound[1])

\* Where the handler is after a step: its promise rejected, waiting on a GET
\* it has issued, or returned.
Resume(st) ==
  IF st.threw THEN "crashed" ELSE IF st.call # <<>> THEN "await" ELSE "done"

\* A request arrives; the handler runs until it has answered or has called
\* axios.get .
Receive(q) ==
  /\ pc \in {"idle", "done", "crashed"}
  /\ served < MaxRequests
  /\ LET st == RequestStep(q)
     IN /\ req' = q
        /\ logs' = st.logs
        /\ res' = st.res
        /\ outbound' = st.call
        /\ pc' = Resume(st)
  /\ reply' = NoReply
  /\ served' = served + 1
  /\ UNCHANGED <<version, env>>

\* axios.get resolves (a 2xx answer) and the handler runs to its end.
Resolve(data) ==
  /\ pc = "await"
  /\ LET st == DataStep(data)
     IN /\ logs' = logs \o st.logs
        /\ res' = st.res
        /\ outbound' = outbound \o st.call
        /\ pc' = Resume(st)
  /\ reply' = [kind |-> "resolved", response |-> Resp(200, data)]
  /\ UNCHANGED <<version, env, req, served>>

\* axios.get rejects (no answer, or an answer outside 2xx) and the handler
\* runs to its end.
Reject(error) ==
  /\ pc = "await"
  /\ LET st == CatchStep(error)
     IN /\ logs' = logs \o st.logs
        /\ res' = st.res
        /\ outbound' = outbound \o st.call
        /\ pc' = Resume(st)
  /\ reply' = [kind |-> "rejected", response |-> error.response]
  /\ UNCHANGED <<version, env, req, served>>

Next ==
  \/ \E q \in Queries : Receive(q)
  \/ \E data \in Datas : Resolve(data)
  \/ \E error \in AxiosErrors : Reject(error)

Spec == Init /\ [][Next]_vars

\* ------------------------------------------------------- what the claims read
\* The credential is configured.
KeySet == env \notin {Undefined, Str("")}
\* A parameter of the request is absent or empty.
Absent(v) == v \in {Undefined, Str("")}
SomeParamMissing == Absent(req.Q0) \/ Absent(req.Q1) \/ Absent(req.DG)
\* The request passed the handler's validation: index.js and part_001 want the
\* credential and the three parameters, part_000 wants the credential only.
Validated == KeySet /\ (version = "part_000" \/ ~SomeParamMissing)
Received == pc # "idle"
Finished == pc \in {"done", "crashed"}

\* The children of element e named n, in document order.
Kids(e, n) == SelectSeq(e.kids, LAMBDA k : k.name = n)

\* The <item> elements at response -> body -> items of a body text, in the
\* upstream's order; none when the path is missing at some level.
UpstreamItems(text) ==
  IF text.form # "wellformed" \/ text.root.name # "response" THEN <<>>
  ELSE LET bodies == Kids(text.root, "body")
       IN IF bodies = <<>> THEN <<>>
          ELSE LET items == Kids(bodies[1], "items")
               IN IF items = <<>> THEN <<>> ELSE Kids(items[1], "item")

\* A record: an <item> with at least one field element.
IsRecord(e) == e.kids # <<>>
\* The JSON object of a record whose fields are text elements.
RecordOf(e) ==
  Obj([n \in {e.kids[i].name : i \in 1..Len(e.kids)} |->
         Str((CHOOSE k \in {e.kids[i] : i \in 1..Len(e.kids)} : k.name = n).text)])

\* The text of response -> header -> resultMsg of a body text, "" when there
\* is none.
ResultMsgOf(text) ==
  IF text.form # "wellformed" \/ text.root.name # "response" THEN ""
  ELSE LET headers == Kids(text.root, "header")
       IN IF headers = <<>> THEN ""
          ELSE LET msgs == Kids(headers[1], "resultMsg")
               IN IF msgs = <<>> THEN "" ELSE msgs[1].text

\* The upstream answered 2xx with a string that xml2js parses.
SuccessParsed ==
  /\ pc = "done" /\ reply.kind = "resolved"
  /\ reply.response.data.jstype = "string"
  /\ reply.response.data.text.form # "malformed"

\* The upstream call failed with an error body.
FailedWithBody ==
  /\ Finished /\ reply.kind = "rejected"
  /\ reply.response.present /\ DataTruthy(reply.response.data)

\* The fixed weekday table: seven weekdays and the holiday designator.
WeekdayCode ==
  [l \in {"wol", "hwa", "su", "mok", "geum", "to", "il", "gonghyuil"} |->
     CASE l = "wol" -> "1" [] l = "hwa" -> "2" [] l = "su" -> "3" [] l = "mok" -> "4"
       [] l = "geum" -> "5" [] l = "to" -> "6" [] l = "il" -> "7" [] OTHER -> "8"]

GenericMessages == {MsgLoadFailed, MsgMalformed, MsgMalformedOrNetwork}
MessageOf(body) == IF body.type = "object" /\ "message" \in DOMAIN body.fields
                   THEN body.fields["message"].val ELSE ""

C2_NoKeyAnswers500 ==
  (Received /\ ~KeySet) =>
    /\ pc = "done"
    /\ res = Json(500, Message(MsgNoKey))
    /\ outbound = <<>>

C2_Witness ==
  /\ pc = "done" /\ env = Str("") /\ SomeParamMissing
  /\ res.status = 500 /\ outbound = <<>>

\* C3: a 2xx answer whose item path holds N >= 1 records is answered 200 with
\* the array of those N records in the upstream's order, one record as a
\* one-element array; and every 200 body is an array.
C3_RecordsAsArray ==
  /\ (res.sent /\ res.status = 200) => IsArray(res.body)
  /\ LET items == UpstreamItems(reply.response.data.text)
     IN (SuccessParsed /\ Len(items) >= 1 /\ \A i \in 1..Len(items) : IsRecord(items[i])) =>
          res = Json(200, Arr([i \in 1..Len(items) |-> RecordOf(items[i])]))

C3_Witness ==
  /\ SuccessParsed
  /\ UpstreamItems(reply.response.data.text) = <<Record1>>
  /\ res = Json(200, Arr(<<RecordOf(Record1)>>))

\* C4: a 2xx answer whose item path is missing at any level (no document, no
\* response, no body, no items, no item) is answered 200 with an empty array.
C4_NoResultsEmptyArray ==
  (SuccessParsed /\ UpstreamItems(reply.response.data.text) = <<>>) =>
    res = Json(200, Arr(<<>>))

C4_Witness ==
  /\ SuccessParsed
  /\ reply.response.data.text.form = "wellformed"
  /\ reply.response.data.text.root.name = "response"
  /\ Kids(reply.response.data.text.root, "body") # <<>>
  /\ UpstreamItems(reply.response.data.text) = <<>>
  /\ res = Json(200, Arr(<<>>))

\* C5 (as stated, on the version that has the table, part_001): for a validated
\* request the DG parameter of the outbound call is the mapped code when the
\* incoming DG is one of the 8 labels, and the incoming DG unchanged otherwise.
C5_WeekdayMapped ==
  (version = "part_001" /\ Received /\ Validated) =>
    /\ Len(outbound) = 1
    /\ QueryParam(outbound[1], "DG") =
         (IF req.DG.val \in DOMAIN WeekdayCode THEN WeekdayCode[req.DG.val] ELSE req.DG.val)

C7_UnparseableBodyAnswered ==
  (version # "part_000" /\ FailedWithBody /\ reply.response.data.text.form = "malformed") =>
    /\ pc = "done"
    /\ res.sent /\ res.status = 500
    /\ MessageOf(res.body) \in {MsgMalformed, MsgMalformedOrNetwork}

\* C8 (as stated): no console line and no response body shows the credential.
C8_CredentialNeverShown ==
  /\ \A i \in 1..Len(logs) : ~ShowsKey(logs[i].pieces, env)
  /\ (res.sent /\ res.body.type = "object") =>
       \A f \in DOMAIN res.body.fields : res.body.fields[f] # env

\* C9 (as stated): the upstream's status is the response status only when a
\* result message was extracted; every other failure of the call or of parsing
\* is answered 500 with a fixed generic message.
C9_OtherFailures500 ==
  LET data == reply.response.data
      extracted == /\ reply.kind = "rejected" /\ reply.response.present
                   /\ data.jstype = "string" /\ ResultMsgOf(data.text) # ""
      failed == \/ reply.kind = "rejected"
                \/ reply.kind = "resolved"
                     /\ (data.jstype # "string" \/ data.text.form = "malformed")
  IN (Finished /\ failed /\ ~extracted) =>
       /\ res.sent /\ res.status = 500
       /\ MessageOf(res.body) \in GenericMessages

\* C10: a validated request makes exactly one outbound GET; nothing is answered
\* before that call has resolved or rejected, and it is not made again after
\* a failure.
C10_ExactlyOneGet ==
  (Received /\ Validated) =>
    /\ Len(outbound) = 1
    /\ res.sent => reply.kind # "none"
    /\ (pc = "await") = (reply.kind = "none")

C10_Witness ==
  /\ Validated /\ pc = "done" /\ reply.kind = "rejected"
  /\ Len(outbound) = 1 /\ res.sent

====
